---- MODULE Spec2Model ----
(***************************************************************************)
(* A model of the narrow-phase core of ReactPhysics3D:                     *)
(*   - the EPA polytope (TriangleEPA, link, halfLink, computeSilhouette),  *)
(*   - the contact accumulator (NarrowPhaseInfo),                          *)
(*   - TriangleEPA::computeClosestPoint,                                   *)
(*   - BoxShape::raycast (both overloads).                                 *)
(* Each part has its own specification (SpecEPA, SpecNPI, SpecClosest,     *)
(* SpecRay); the variables of the other parts stay at their initial value. *)
(***************************************************************************)
EXTENDS Integers, Sequences, FiniteSets, TLC

VARIABLES
    triangles,      \* TrianglesStore: face index -> [v, adj, obs]
    nbTriangles,    \* TrianglesStore::getNbTriangles()
    nbVertices,     \* number of polytope vertices (next new vertex index)
    epa,            \* the last polytope operation and what it returned
    epaFailed,      \* a computeSilhouette has returned false (the EPA run is over)
    epaForeign,     \* link/halfLink was called directly on an edge of an obsolete face
    capacity,       \* the capacity of the TrianglesStore
    contactPoints,  \* per pair: NarrowPhaseInfo::contactPoints, the head of the list
    mem,            \* per temporary allocator: address -> block
    allocErr,       \* per temporary allocator: a block was released that was not allocated
    potential,      \* per pair: the list the pair record was handed
    status,         \* per pair: the NarrowPhaseInfo is "alive", "destroyed" or "aborted"
    assertOK,       \* per pair: the destructor found contactPoints == nullptr
    shapeReleased,  \* per pair: the shapes the destructor released (1, 2)
    added,          \* per pair: the points added since the last reset, oldest first
    npi,            \* the last accumulator operation
    cpVertices,     \* the vertex array handed to computeClosestPoint (0..2 -> point)
    cpFace,         \* the face's cached det, lambda1, lambda2, closestPoint, distSquare
    cpRet,          \* whether computeClosestPoint was called and what it returned
    box,            \* the BoxShape: constructor's extent, mExtent, mMargin
    query,          \* the ray, the maximum distance and the shape's transform
    rayRes,         \* the last BoxShape raycast and its result
    inertia         \* the last computeLocalInertiaTensor call: mass and tensor

epaVars == <<triangles, nbTriangles, nbVertices, epa, epaFailed, epaForeign, capacity>>

npiVars == <<contactPoints, mem, allocErr, potential, status, assertOK, shapeReleased,
             added, npi>>

cpVars == <<cpVertices, cpFace, cpRet>>

boxVars == <<box, query, rayRes, inertia>>

vars == <<epaVars, npiVars, cpVars, boxVars>>

\* what the operations of one part leave alone
otherThanEPA == <<npiVars, cpVars, boxVars>>

otherThanNPI == <<epaVars, cpVars, boxVars>>

otherThanClosest == <<epaVars, npiVars, boxVars>>

otherThanBox == <<epaVars, npiVars, cpVars>>

(***************************************************************************)
(* Bounds                                                                  *)
(***************************************************************************)
\* capacity of the triangle store (newTriangle fails when it is full)
MaxTriangles == 12
\* the capacity where link and halfLink are also called directly
MaxLinkTriangles == 8
\* number of blocks of a pair's temporary allocator (caps the list length)
\* the store holds MaxAbortTriangles faces when one stray link disturbs the expansion
MaxAbortTriangles == 9
MaxNodes == 2
\* vertex coordinates of the faces handed to computeClosestPoint are -1..MaxCoord
MaxCoord == 1
\* collision margins of the boxes are 0..MaxMargin
MaxMargin == 1
\* masses handed to computeLocalInertiaTensor are 1..MaxMass
MaxMass == 3

(***************************************************************************)
(* EPA polytope: faces, half-edges                                         *)
(***************************************************************************)
\* a default-constructed EdgeEPA: an adjacency slot nothing has set yet
NoEdge == [owner |-> -1, index |-> 0]

EdgeEPA(t, i) == [owner |-> t, index |-> i]

indexOfNextCounterClockwiseEdge(i) == (i + 1) % 3

indexOfPreviousCounterClockwiseEdge(i) == (i + 2) % 3

\* TriangleEPA::TriangleEPA(v1, v2, v3): isObsolete(false), adjacency not set
TriangleEPA(a, b, c) ==
    [v   |-> [i \in 0..2 |-> IF i = 0 THEN a ELSE IF i = 1 THEN b ELSE c],
     adj |-> [i \in 0..2 |-> NoEdge],
     obs |-> FALSE]

getSource(tris, e) == tris[e.owner].v[e.index]

getTarget(tris, e) == tris[e.owner].v[indexOfNextCounterClockwiseEdge(e.index)]

\* the check that link makes and halfLink asserts
Opposite(tris, e0, e1) ==
    /\ getSource(tris, e0) = getTarget(tris, e1)
    /\ getTarget(tris, e0) = getSource(tris, e1)

setAdjacentEdge(tris, e0, e1) == [tris EXCEPT ![e0.owner].adj[e0.index] = e1]

\* mutant of link: only the first edge's face is updated
link_OneSided(tris, edge0, edge1) ==
    LET isPossible == Opposite(tris, edge0, edge1)
    IN  [ret  |-> isPossible,
         tris |-> IF isPossible THEN setAdjacentEdge(tris, edge0, edge1) ELSE tris]

\* mutant of link: only the first half of the source/target test is made
link_HalfTest(tris, edge0, edge1) ==
    LET isPossible == getSource(tris, edge0) = getTarget(tris, edge1)
    IN  [ret  |-> isPossible,
         tris |-> IF isPossible
                  THEN setAdjacentEdge(setAdjacentEdge(tris, edge0, edge1), edge1, edge0)
                  ELSE tris]

\* reactphysics3d::link
link(tris, edge0, edge1) ==
    LET isPossible == Opposite(tris, edge0, edge1)
    IN  [ret  |-> isPossible,
         tris |-> IF isPossible
                  THEN setAdjacentEdge(setAdjacentEdge(tris, edge0, edge1), edge1, edge0)
                  ELSE tris]

\* mutant of halfLink: the link is written on the other edge's face
halfLink_Swapped(tris, edge0, edge1) == setAdjacentEdge(tris, edge1, edge0)

\* reactphysics3d::halfLink (its assertion is Opposite(tris, edge0, edge1))
halfLink(tris, edge0, edge1) == setAdjacentEdge(tris, edge0, edge1)

\* TrianglesStore::newTriangle: appends a face, or fails when the store is full
newTriangle(st, a, b, c) ==
    IF st.nb >= st.cap
    THEN [ok |-> FALSE, tris |-> st.tris, nb |-> st.nb, cap |-> st.cap]
    ELSE [ok |-> TRUE,
          tris |-> [i \in 0..st.nb |-> IF i = st.nb THEN TriangleEPA(a, b, c) ELSE st.tris[i]],
          nb |-> st.nb + 1, cap |-> st.cap]

\* EdgeEPA::computeSilhouette: the recursion across one edge.  st = [tris, nb, cap]
RECURSIVE EdgeComputeSilhouette(_, _, _, _)
EdgeComputeSilhouette(e, index, visible, st) ==
    LET owner == st.tris[e.owner]
    IN  IF owner.obs
        THEN [ret |-> TRUE, tris |-> st.tris, nb |-> st.nb, cap |-> st.cap]
        ELSE IF e.owner \notin visible
        THEN \* the edge is on the horizon: a new face joins the new vertex to it
             LET n == newTriangle(st, index, getTarget(st.tris, e), getSource(st.tris, e))
             IN  IF n.ok
                 THEN [ret  |-> TRUE,
                       tris |-> halfLink(n.tris, EdgeEPA(st.nb, 1), e),
                       nb   |-> n.nb, cap |-> st.cap]
                 ELSE [ret |-> FALSE, tris |-> st.tris, nb |-> st.nb, cap |-> st.cap]
        ELSE \* the face is visible too: mark it and go on across its other edges
             LET s1 == [st EXCEPT !.tris[e.owner].obs = TRUE]
                 r1 == EdgeComputeSilhouette(
                           owner.adj[indexOfNextCounterClockwiseEdge(e.index)],
                           index, visible, s1)
             IN  IF ~r1.ret
                 THEN r1
                 ELSE EdgeComputeSilhouette(
                           owner.adj[indexOfPreviousCounterClockwiseEdge(e.index)],
                           index, visible, [tris |-> r1.tris, nb |-> r1.nb, cap |-> st.cap])

\* one call made by TriangleEPA::computeSilhouette, as it is recorded in calls
Call(fn, e0, e1, ret) == [fn |-> fn, e0 |-> e0, e1 |-> e1, ret |-> ret]

\* mutant: the two kinds of link change places in the stitching loop
RECURSIVE StitchRolesSwapped(_, _, _, _)
StitchRolesSwapped(tris, i, j, n) ==
    IF i = n
    THEN [ret |-> TRUE, tris |-> tris, calls |-> <<>>]
    ELSE LET t1 == halfLink(tris, EdgeEPA(i, 0), EdgeEPA(j, 2))
             l  == link(t1, EdgeEPA(i, 1), tris[i].adj[1])
             cs == <<Call("halfLink", EdgeEPA(i, 0), EdgeEPA(j, 2), TRUE),
                     Call("link", EdgeEPA(i, 1), tris[i].adj[1], l.ret)>>
         IN  IF ~l.ret
             THEN [ret |-> FALSE, tris |-> l.tris, calls |-> cs]
             ELSE LET rest == StitchRolesSwapped(l.tris, i + 1, i, n)
                  IN  [ret |-> rest.ret, tris |-> rest.tris, calls |-> cs \o rest.calls]

\* mutant: a failed link does not end the stitching loop
RECURSIVE StitchNoAbort(_, _, _, _)
StitchNoAbort(tris, i, j, n) ==
    IF i = n
    THEN [ret |-> TRUE, tris |-> tris, calls |-> <<>>]
    ELSE LET t1 == halfLink(tris, tris[i].adj[1], EdgeEPA(i, 1))
             l  == link(t1, EdgeEPA(i, 0), EdgeEPA(j, 2))
             cs == <<Call("halfLink", tris[i].adj[1], EdgeEPA(i, 1), TRUE),
                     Call("link", EdgeEPA(i, 0), EdgeEPA(j, 2), l.ret)>>
             rest == StitchNoAbort(l.tris, i + 1, i, n)
         IN  [ret |-> l.ret /\ rest.ret, tris |-> rest.tris, calls |-> cs \o rest.calls]

RECURSIVE Stitch(_, _, _, _)
Stitch_RolesSwapped(tris, i, j, n) == StitchRolesSwapped(tris, i, j, n)

Stitch_NoAbort(tris, i, j, n) == StitchNoAbort(tris, i, j, n)

\* the stitching loop of TriangleEPA::computeSilhouette, from face i with
\* previous face j; n is getNbTriangles(); calls are the calls it made, in order
Stitch(tris, i, j, n) ==
    IF i = n
    THEN [ret |-> TRUE, tris |-> tris, calls |-> <<>>]
    ELSE LET t1 == halfLink(tris, tris[i].adj[1], EdgeEPA(i, 1))
             l  == link(t1, EdgeEPA(i, 0), EdgeEPA(j, 2))
             cs == <<Call("halfLink", tris[i].adj[1], EdgeEPA(i, 1), TRUE),
                     Call("link", EdgeEPA(i, 0), EdgeEPA(j, 2), l.ret)>>
         IN  IF ~l.ret
             THEN [ret |-> FALSE, tris |-> l.tris, calls |-> cs]
             ELSE LET rest == Stitch(l.tris, i + 1, i, n)
                  IN  [ret |-> rest.ret, tris |-> rest.tris, calls |-> cs \o rest.calls]

\* TriangleEPA::computeSilhouette on face t
computeSilhouette(tris, nb, cap, t, index, visible) ==
    LET first == nb
        s0 == [tris |-> [tris EXCEPT ![t].obs = TRUE], nb |-> nb, cap |-> cap]
        r0 == EdgeComputeSilhouette(tris[t].adj[0], index, visible, s0)
        r1 == IF r0.ret
              THEN EdgeComputeSilhouette(tris[t].adj[1], index, visible,
                                         [tris |-> r0.tris, nb |-> r0.nb, cap |-> cap])
              ELSE r0
        r2 == IF r1.ret
              THEN EdgeComputeSilhouette(tris[t].adj[2], index, visible,
                                         [tris |-> r1.tris, nb |-> r1.nb, cap |-> cap])
              ELSE r1
        \* the edge recursions that were called (&& stops at the first false)
        c0 == <<Call("computeSilhouette", tris[t].adj[0], NoEdge, r0.ret)>>
        c1 == IF r0.ret
              THEN c0 \o <<Call("computeSilhouette", tris[t].adj[1], NoEdge, r1.ret)>>
              ELSE c0
        c2 == IF r1.ret
              THEN c1 \o <<Call("computeSilhouette", tris[t].adj[2], NoEdge, r2.ret)>>
              ELSE c1
    IN  IF r2.ret
        THEN LET s == Stitch(r2.tris, first, r2.nb - 1, r2.nb)
             IN  [ret |-> s.ret, tris |-> s.tris, nb |-> r2.nb,
                  stage |-> IF s.ret THEN "done" ELSE "stitch",
                  calls |-> c2 \o s.calls]
        ELSE [ret |-> FALSE, tris |-> r2.tris, nb |-> r2.nb, stage |-> "edges",
              calls |-> c2]

(***************************************************************************)
(* Contact accumulator: NarrowPhaseInfo, its pair and the pair's allocator *)
(***************************************************************************)
\* two shape pairs, each processed by its own worker
Pairs == {1, 2}

Null == 0

Addr == 1..MaxNodes

\* what the narrow phase passes to addContactPoint (penDepth > 0 is asserted)
ContactInputs ==
    {[contactNormal |-> <<0, 1, 0>>, penDepth |-> 1,
      localPoint1 |-> <<0, 0, 0>>, localPoint2 |-> <<0, -1, 0>>],
     [contactNormal |-> <<1, 0, 0>>, penDepth |-> 2,
      localPoint1 |-> <<1, 0, 0>>, localPoint2 |-> <<-1, 0, 0>>]}

NoData ==
    [contactNormal |-> <<0, 0, 0>>, penDepth |-> 0,
     localPoint1 |-> <<0, 0, 0>>, localPoint2 |-> <<0, 0, 0>>]

\* a block of the allocator that is not handed out
FreeBlock == [alloc |-> FALSE, data |-> NoData, next |-> Null]

SizeofContactPointInfo == "sizeof(ContactPointInfo)"

\* mutant: every pair is given the same temporary allocator
getTemporaryAllocator_Shared(p) == 1

\* OverlappingPair::getTemporaryAllocator: each pair has an allocator of its own
getTemporaryAllocator(p) == p

\* CollisionShape::getName of the pair's shape i
collisionShapeName(p, i) == IF p = 1 /\ i = 1 THEN "TRIANGLE" ELSE "BOX"

Outstanding(m) == {a \in Addr : m[a].alloc}

\* Allocator::allocate handing out the free block a
allocate(m, a) == [m EXCEPT ![a] = [alloc |-> TRUE, data |-> NoData, next |-> Null]]

\* Allocator::release(a, size): m is [mem, err]
release(m, a, size) ==
    IF m.mem[a].alloc /\ size = SizeofContactPointInfo
    THEN [mem |-> [m.mem EXCEPT ![a] = FreeBlock], err |-> m.err]
    ELSE [mem |-> m.mem, err |-> TRUE]

\* mutant of addContactPoint: the new node is not linked to the previous head
addContactPoint_NoNext(head, m, in, a) ==
    LET m1 == [allocate(m, a) EXCEPT ![a].data = in]
    IN  [head |-> a, mem |-> m1]

\* NarrowPhaseInfo::addContactPoint, the allocator handing out block a
addContactPoint(head, m, in, a) ==
    LET m1 == [allocate(m, a) EXCEPT ![a].data = in]
        m2 == [m1 EXCEPT ![a].next = head]
    IN  [head |-> a, mem |-> m2]

\* the loop of resetContactPoints: m is [mem, err], log the releases made
RECURSIVE ResetLoop(_, _, _)
ResetLoop(element, m, log) ==
    IF element = Null
    THEN [mem |-> m.mem, err |-> m.err, log |-> log]
    ELSE LET elementToDelete == element
             nextElement == m.mem[element].next
         IN  ResetLoop(nextElement,
                       release(m, elementToDelete, SizeofContactPointInfo),
                       Append(log, <<elementToDelete, SizeofContactPointInfo>>))

\* mutant of resetContactPoints: the head pointer is not cleared
resetContactPoints_NoClear(head, m) ==
    LET r == ResetLoop(head, m, <<>>)
    IN  [head |-> head, mem |-> r.mem, err |-> r.err, log |-> r.log]

\* mutant of resetContactPoints: only the first node is released
resetContactPoints_HeadOnly(head, m) ==
    IF head = Null
    THEN [head |-> Null, mem |-> m.mem, err |-> m.err, log |-> <<>>]
    ELSE LET r == release(m, head, SizeofContactPointInfo)
         IN  [head |-> Null, mem |-> r.mem, err |-> r.err,
              log |-> <<<<head, SizeofContactPointInfo>>>>]

\* NarrowPhaseInfo::resetContactPoints
resetContactPoints(head, m) ==
    LET r == ResetLoop(head, m, <<>>)
    IN  [head |-> Null, mem |-> r.mem, err |-> r.err, log |-> r.log]

\* OverlappingPair::addPotentialContactPoints: the pair record takes the list
\* as it is (not copied); the accumulator's list is left alone
addPotentialContactPoints(head) == [potential |-> head, head |-> head]

\* the nodes of the list from head, in list order (at most fuel nodes)
RECURSIVE ListOf(_, _, _)
ListOf(head, m, fuel) ==
    IF head = Null \/ fuel = 0
    THEN <<>>
    ELSE <<[addr |-> head, data |-> m[head].data]>> \o ListOf(m[head].next, m, fuel - 1)

Reverse(q) == [i \in 1..Len(q) |-> q[Len(q) + 1 - i]]

(***************************************************************************)
(* Vectors (tuples <<x, y, z>>; axis i of the code is component i + 1)      *)
(***************************************************************************)
Dot(a, b) == a[1] * b[1] + a[2] * b[2] + a[3] * b[3]

Add(a, b) == <<a[1] + b[1], a[2] + b[2], a[3] + b[3]>>

Sub(a, b) == <<a[1] - b[1], a[2] - b[2], a[3] - b[3]>>

Scale(k, a) == <<k * a[1], k * a[2], k * a[3]>>

Abs(x) == IF x < 0 THEN -x ELSE x

Max(x, y) == IF x > y THEN x ELSE y

Min(x, y) == IF x < y THEN x ELSE y

(***************************************************************************)
(* TriangleEPA::computeClosestPoint, in exact arithmetic: a quotient is    *)
(* kept as [num, den]                                                      *)
(***************************************************************************)
\* mutant: a determinant of zero is accepted
computeClosestPoint_NonStrict(face, vertices) ==
    LET p0 == vertices[0]
        v1 == Sub(vertices[1], p0)
        v2 == Sub(vertices[2], p0)
        det == Dot(v1, v1) * Dot(v2, v2) - Dot(v1, v2) * Dot(v1, v2)
        lambda1 == Dot(p0, v2) * Dot(v1, v2) - Dot(p0, v1) * Dot(v2, v2)
        lambda2 == Dot(p0, v1) * Dot(v1, v2) - Dot(p0, v2) * Dot(v1, v1)
        num == Add(Scale(det, p0), Add(Scale(lambda1, v1), Scale(lambda2, v2)))
        f1 == [face EXCEPT !.det = det, !.lambda1 = lambda1, !.lambda2 = lambda2]
    IN  IF det >= 0
        THEN [ret |-> TRUE,
              face |-> [f1 EXCEPT !.closestPoint = [num |-> num, den |-> det],
                                  !.distSquare = [num |-> Dot(num, num), den |-> det * det]]]
        ELSE [ret |-> FALSE, face |-> f1]

\* TriangleEPA::computeClosestPoint on the face with vertices 0, 1, 2
computeClosestPoint(face, vertices) ==
    LET p0 == vertices[0]
        v1 == Sub(vertices[1], p0)
        v2 == Sub(vertices[2], p0)
        v1Dotv1 == Dot(v1, v1)
        v1Dotv2 == Dot(v1, v2)
        v2Dotv2 == Dot(v2, v2)
        p0Dotv1 == Dot(p0, v1)
        p0Dotv2 == Dot(p0, v2)
        det == v1Dotv1 * v2Dotv2 - v1Dotv2 * v1Dotv2
        lambda1 == p0Dotv2 * v1Dotv2 - p0Dotv1 * v2Dotv2
        lambda2 == p0Dotv1 * v1Dotv2 - p0Dotv2 * v1Dotv1
        \* p0 + 1.0 / det * (lambda1 * v1 + lambda2 * v2), over the denominator det
        num == Add(Scale(det, p0), Add(Scale(lambda1, v1), Scale(lambda2, v2)))
        f1 == [face EXCEPT !.det = det, !.lambda1 = lambda1, !.lambda2 = lambda2]
    IN  IF det > 0
        THEN [ret |-> TRUE,
              face |-> [f1 EXCEPT !.closestPoint = [num |-> num, den |-> det],
                                  !.distSquare = [num |-> Dot(num, num), den |-> det * det]]]
        ELSE [ret |-> FALSE, face |-> f1]

(***************************************************************************)
(* BoxShape.  Lengths are integers; a unit direction is kept in fifths, a  *)
(* ray parameter t in twelfths and a hit point in sixtieths, so that the   *)
(* divisions of the slab method are exact for the directions used.         *)
(***************************************************************************)
DirScale == 5

TScale == 12

\* DECIMAL_LARGEST, in twelfths
DecimalLargest == 1000000

\* |d| for the directions used (their lengths are whole numbers)
Norm(d) == CHOOSE n \in 0..10 : n * n = Dot(d, d)

\* Vector3::getUnit, in fifths
getUnit(d) == <<(DirScale * d[1]) \div Norm(d), (DirScale * d[2]) \div Norm(d),
                (DirScale * d[3]) \div Norm(d)>>

\* std::abs(rayDirection[i]) < MACHINE_EPSILON: of the directions used only a
\* zero component is below the threshold
IsParallel(x) == Abs(x) < 1

\* BoxShape::BoxShape(extent, margin)
BoxShape(extent, margin) ==
    [extent  |-> extent,
     mExtent |-> Sub(extent, <<margin, margin, margin>>),
     mMargin |-> margin]

\* decimal(1.0) / decimal(3.0): tensor entries are kept as numerators over 3
FactorDen == 3

\* Matrix3x3::setAllValues on a diagonal
Diagonal(a, b, c) == <<<<a, 0, 0>>, <<0, b, 0>>, <<0, 0, c>>>>

\* mutant: the stored extents are used as they are
computeLocalInertiaTensor_NoMargin(shape, mass) ==
    LET realExtent == shape.mExtent
        xSquare == realExtent[1] * realExtent[1]
        ySquare == realExtent[2] * realExtent[2]
        zSquare == realExtent[3] * realExtent[3]
    IN  [num |-> Diagonal(mass * (ySquare + zSquare), mass * (xSquare + zSquare),
                          mass * (xSquare + ySquare)),
         den |-> FactorDen]

\* BoxShape::computeLocalInertiaTensor(tensor, mass): factor = mass / 3
computeLocalInertiaTensor(shape, mass) ==
    LET realExtent == Add(shape.mExtent, <<shape.mMargin, shape.mMargin, shape.mMargin>>)
        xSquare == realExtent[1] * realExtent[1]
        ySquare == realExtent[2] * realExtent[2]
        zSquare == realExtent[3] * realExtent[3]
    IN  [num |-> Diagonal(mass * (ySquare + zSquare), mass * (xSquare + zSquare),
                          mass * (xSquare + ySquare)),
         den |-> FactorDen]

\* the slab loop of raycast(ray, proxyShape) from axis i on; origin and
\* rayDirection are local, rayDirection in fifths, tMin and tMax in twelfths
RECURSIVE RaycastLoop(_, _, _, _, _, _)
RaycastLoop(i, tMin, tMax, origin, rayDirection, mExtent) ==
    IF i > 3
    THEN [ret |-> TRUE, tMin |-> tMin]
    ELSE IF IsParallel(rayDirection[i])
    THEN IF origin[i] > mExtent[i] \/ origin[i] < -mExtent[i]
         THEN [ret |-> FALSE, tMin |-> tMin]
         ELSE RaycastLoop(i + 1, tMin, tMax, origin, rayDirection, mExtent)
    ELSE LET oneOverD == (DirScale * TScale) \div rayDirection[i]
             a  == (-mExtent[i] - origin[i]) * oneOverD
             b  == (mExtent[i] - origin[i]) * oneOverD
             t1 == IF a > b THEN b ELSE a
             t2 == IF a > b THEN a ELSE b
             newMin == Max(tMin, t1)
             newMax == Min(tMax, t2)
         IN  IF t1 < 0
             THEN [ret |-> FALSE, tMin |-> tMin]
             ELSE IF newMin > newMax
             THEN [ret |-> FALSE, tMin |-> newMin]
             ELSE RaycastLoop(i + 1, newMin, newMax, origin, rayDirection, mExtent)

\* BoxShape::raycast(ray, proxyShape); q = [origin, direction, distance, translation]
raycast(shape, q) ==
    LET origin == Sub(q.origin, q.translation)
        rayDirection == getUnit(q.direction)
    IN  RaycastLoop(1, 0, DecimalLargest, origin, rayDirection, shape.mExtent)

\* the slab loop of raycast(ray, raycastInfo, proxyShape, distance) from axis i on
RECURSIVE RaycastInfoLoop(_, _, _, _, _, _, _, _)
RaycastInfoLoop(i, tMin, tMax, normalDirection, origin, rayDirection, mExtent, distance) ==
    IF i > 3
    THEN [ret |-> TRUE, tMin |-> tMin, normalDirection |-> normalDirection]
    ELSE IF IsParallel(rayDirection[i])
    THEN IF origin[i] > mExtent[i] \/ origin[i] < -mExtent[i]
         THEN [ret |-> FALSE, tMin |-> tMin, normalDirection |-> normalDirection]
         ELSE RaycastInfoLoop(i + 1, tMin, tMax, normalDirection, origin, rayDirection,
                              mExtent, distance)
    ELSE LET oneOverD == (DirScale * TScale) \div rayDirection[i]
             a  == (-mExtent[i] - origin[i]) * oneOverD
             b  == (mExtent[i] - origin[i]) * oneOverD
             t1 == IF a > b THEN b ELSE a
             t2 == IF a > b THEN a ELSE b
             \* currentNormal = -mExtent, negated when t1 and t2 are swapped
             currentNormal == IF a > b THEN mExtent ELSE Scale(-1, mExtent)
             newMin == IF t1 > tMin THEN t1 ELSE tMin
             newNormal == IF t1 > tMin THEN currentNormal ELSE normalDirection
             newMax == Min(tMax, t2)
         IN  IF t1 < 0
             THEN [ret |-> FALSE, tMin |-> tMin, normalDirection |-> normalDirection]
             ELSE IF newMin > TScale * distance
             THEN [ret |-> FALSE, tMin |-> newMin, normalDirection |-> newNormal]
             ELSE IF newMin > newMax
             THEN [ret |-> FALSE, tMin |-> newMin, normalDirection |-> newNormal]
             ELSE RaycastInfoLoop(i + 1, newMin, newMax, newNormal, origin, rayDirection,
                                  mExtent, distance)

\* what raycastInfo holds when nothing has written it
NoInfo == [distance |-> 0, worldPoint |-> <<0, 0, 0>>, worldNormal |-> <<0, 0, 0>>]

\* BoxShape::raycast(ray, raycastInfo, proxyShape, distance): distance is
\* reported in twelfths, worldPoint in sixtieths
raycastInfo(shape, q) ==
    LET origin == Sub(q.origin, q.translation)
        rayDirection == getUnit(q.direction)
        r == RaycastInfoLoop(1, 0, DecimalLargest, <<0, 0, 0>>, origin, rayDirection,
                             shape.mExtent, q.distance)
        localHitPoint == Add(Scale(DirScale * TScale, origin), Scale(r.tMin, rayDirection))
    IN  IF r.ret
        THEN [ret  |-> TRUE,
              info |-> [distance    |-> r.tMin,
                        worldPoint  |-> Add(Scale(DirScale * TScale, q.translation),
                                            localHitPoint),
                        worldNormal |-> r.normalDirection]]
        ELSE [ret |-> FALSE, info |-> NoInfo]

(***************************************************************************)
(* EPA: the state machine                                                  *)
(***************************************************************************)
Faces == 0..(nbTriangles - 1)

Edges == {EdgeEPA(t, i) : t \in Faces, i \in 0..2}

Live == {t \in Faces : ~triangles[t].obs}

\* the edge of another face that runs the opposite way
Twin(tris, n, e) ==
    CHOOSE f \in {EdgeEPA(t, i) : t \in 0..(n - 1), i \in 0..2} : Opposite(tris, e, f)

\* the initial tetrahedron the caller builds, every edge linked with its twin
Tetrahedron ==
    LET raw == [t \in 0..3 |->
                   IF t = 0 THEN TriangleEPA(0, 1, 2)
                   ELSE IF t = 1 THEN TriangleEPA(0, 3, 1)
                   ELSE IF t = 2 THEN TriangleEPA(0, 2, 3)
                   ELSE TriangleEPA(1, 3, 2)]
    IN  [t \in 0..3 |->
            [raw[t] EXCEPT !.adj = [i \in 0..2 |-> Twin(raw, 4, EdgeEPA(t, i))]]]

NoOp == [op |-> "init", ret |-> TRUE, first |-> 0, stage |-> "done", on |-> 0,
         calls |-> <<>>]

InitPolytope ==
    /\ triangles = Tetrahedron
    /\ nbTriangles = 4
    /\ nbVertices = 4
    /\ epa = NoOp
    /\ epaFailed = FALSE
    /\ epaForeign = FALSE

\* the accumulators right after construction: contactPoints(nullptr)
InitAccumulators ==
    /\ contactPoints = [p \in Pairs |-> Null]
    /\ mem = [p \in Pairs |-> [a \in Addr |-> FreeBlock]]
    /\ allocErr = [p \in Pairs |-> FALSE]
    /\ potential = [p \in Pairs |-> Null]
    /\ status = [p \in Pairs |-> "alive"]
    /\ assertOK = [p \in Pairs |-> TRUE]
    /\ shapeReleased = [p \in Pairs |-> {}]
    /\ added = [p \in Pairs |-> <<>>]
    /\ npi = [op |-> "init", pair |-> 0, log |-> <<>>, n |-> 0, nodes |-> {}]

\* what the cached closest point and square distance hold before the first call
Stale == [num |-> <<9, 9, 9>>, den |-> 1]

StaleFace ==
    [det |-> 0, lambda1 |-> 0, lambda2 |-> 0, closestPoint |-> Stale,
     distSquare |-> [num |-> 243, den |-> 1]]

Coords == (-1)..MaxCoord

Points == {<<x, y, z>> : x \in Coords, y \in Coords, z \in Coords}

InitFace(vs) ==
    /\ cpVertices = vs
    /\ cpFace = StaleFace
    /\ cpRet = [called |-> FALSE, ret |-> FALSE]

Origin3 == <<0, 0, 0>>

UnitTriangle == [i \in 0..2 |-> IF i = 0 THEN <<1, 0, 0>>
                                ELSE IF i = 1 THEN <<0, 1, 0>> ELSE <<0, 0, 1>>]

NoResult == [op |-> "none", ret |-> FALSE, info |-> NoInfo]

NoTensor == [called |-> FALSE, mass |-> 0, tensor |-> [num |-> Diagonal(0, 0, 0), den |-> 1]]

InitBox(b, q) ==
    /\ box = b
    /\ query = q
    /\ rayRes = NoResult
    /\ inertia = NoTensor

UnitBox == BoxShape(<<1, 1, 1>>, 0)

AlongX == [origin |-> <<5, 0, 0>>, direction |-> <<-1, 0, 0>>, distance |-> 10,
           translation |-> Origin3]

InitEPA ==
    /\ InitPolytope /\ capacity = MaxTriangles
    /\ InitAccumulators /\ InitFace(UnitTriangle) /\ InitBox(UnitBox, AlongX)

InitLink ==
    /\ InitPolytope /\ capacity = MaxLinkTriangles
    /\ InitAccumulators /\ InitFace(UnitTriangle) /\ InitBox(UnitBox, AlongX)

InitAbort ==
    /\ InitPolytope /\ capacity = MaxAbortTriangles
    /\ InitAccumulators /\ InitFace(UnitTriangle) /\ InitBox(UnitBox, AlongX)

InitNPI ==
    /\ InitPolytope /\ capacity = MaxTriangles
    /\ InitAccumulators /\ InitFace(UnitTriangle) /\ InitBox(UnitBox, AlongX)

\* a face over any three grid points
InitClosest ==
    /\ InitPolytope /\ capacity = MaxTriangles
    /\ InitAccumulators /\ InitBox(UnitBox, AlongX)
    /\ \E p0 \in Points, p1 \in Points, p2 \in Points :
           InitFace([i \in 0..2 |-> IF i = 0 THEN p0 ELSE IF i = 1 THEN p1 ELSE p2])

Extents == {<<1, 1, 1>>, <<2, 2, 2>>, <<2, 3, 2>>, <<3, 3, 4>>}

Boxes == {BoxShape(e, m) : e \in Extents, m \in 0..MaxMargin}

OriginCoords == {-5, 0, 5}

Directions ==
    {<<-1, 0, 0>>, <<1, 0, 0>>, <<0, 2, 0>>, <<0, 0, -1>>,
     <<-4, 3, 0>>, <<-4, -3, 0>>, <<3, 4, 0>>, <<0, -3, 4>>, <<-3, 0, -4>>}

Distances == {3, 10}

Translations == {Origin3, <<1, 0, 0>>}

Queries ==
    {[origin |-> <<x, y, z>>, direction |-> d, distance |-> dist, translation |-> tr] :
        x \in OriginCoords, y \in OriginCoords, z \in OriginCoords,
        d \in Directions, dist \in Distances, tr \in Translations}

\* a box the constructor accepts (extent > 0 and extent > margin on every axis)
\* and a ray
InitRay ==
    /\ InitPolytope /\ capacity = MaxTriangles
    /\ InitAccumulators /\ InitFace(UnitTriangle)
    /\ \E b \in Boxes, q \in Queries :
           /\ \A i \in 1..3 : b.extent[i] > 0 /\ b.extent[i] > b.mMargin
           /\ InitBox(b, q)

OnObsolete(e0, e1) == triangles[e0.owner].obs \/ triangles[e1.owner].obs

\* a direct call of link(e0, e1)
Link(e0, e1) ==
    LET r == link(triangles, e0, e1)
    IN  /\ ~epaFailed
        /\ triangles' = r.tris
        /\ epa' = [NoOp EXCEPT !.op = "link", !.ret = r.ret]
        /\ epaForeign' = (epaForeign \/ (r.ret /\ OnObsolete(e0, e1)))
        /\ UNCHANGED <<nbTriangles, nbVertices, epaFailed, capacity, otherThanEPA>>

\* a direct call of halfLink(e0, e1); its assertion is the precondition
HalfLink(e0, e1) ==
    /\ ~epaFailed
    /\ Opposite(triangles, e0, e1)
    /\ triangles' = halfLink(triangles, e0, e1)
    /\ epa' = [NoOp EXCEPT !.op = "halfLink"]
    /\ epaForeign' = (epaForeign \/ OnObsolete(e0, e1))
    /\ UNCHANGED <<nbTriangles, nbVertices, epaFailed, capacity, otherThanEPA>>

\* one expansion step: the new vertex nbVertices sees the faces of `visible`,
\* and the silhouette is computed from the visible face t
ComputeSilhouette(t, visible) ==
    /\ ~epaFailed
    /\ t \in visible
    /\ LET r == computeSilhouette(triangles, nbTriangles, capacity, t, nbVertices, visible)
       IN  /\ triangles' = r.tris
           /\ nbTriangles' = r.nb
           /\ epa' = [op |-> "computeSilhouette", ret |-> r.ret, first |-> nbTriangles,
                      stage |-> r.stage, on |-> t, calls |-> r.calls]
           /\ epaFailed' = ~r.ret
    /\ nbVertices' = nbVertices + 1
    /\ UNCHANGED <<epaForeign, capacity, otherThanEPA>>

\* the expansion loop alone
NextEPA ==
    \E visible \in SUBSET Live : \E t \in visible : ComputeSilhouette(t, visible)

SpecEPA == InitEPA /\ [][NextEPA]_vars

\* the expansion loop with direct calls of link and halfLink in between
NextLink ==
    \/ \E e0 \in Edges, e1 \in Edges : Link(e0, e1)
    \/ \E e0 \in Edges, e1 \in Edges : HalfLink(e0, e1)
    \/ \E visible \in SUBSET Live : \E t \in visible : ComputeSilhouette(t, visible)

SpecLink == InitLink /\ [][NextLink]_vars

\* the expansion loop, disturbed by direct links of which at most one rewires
\* an edge of an obsolete face
NextAbort ==
    \/ \E visible \in SUBSET Live : \E t \in visible : ComputeSilhouette(t, visible)
    \/ \E e0 \in Edges, e1 \in Edges : ~epaForeign /\ Link(e0, e1)

SpecAbort == InitAbort /\ [][NextAbort]_vars

(***************************************************************************)
(* Contact accumulator: the state machine                                  *)
(***************************************************************************)
AddContactPoint(p, in, a) ==
    LET al == getTemporaryAllocator(p)
        r  == addContactPoint(contactPoints[p], mem[al], in, a)
    IN  /\ status[p] = "alive"
        /\ in.penDepth > 0
        /\ ~mem[al][a].alloc
        /\ contactPoints' = [contactPoints EXCEPT ![p] = r.head]
        /\ mem' = [mem EXCEPT ![al] = r.mem]
        /\ added' = [added EXCEPT ![p] = Append(@, [addr |-> a, data |-> in])]
        /\ npi' = [op |-> "addContactPoint", pair |-> p, log |-> <<>>, n |-> 0, nodes |-> {}]
        /\ UNCHANGED <<allocErr, potential, status, assertOK, shapeReleased, otherThanNPI>>

AddContactPointsAsPotentialContactManifold(p) ==
    LET r == addPotentialContactPoints(contactPoints[p])
    IN  /\ status[p] = "alive"
        /\ potential' = [potential EXCEPT ![p] = r.potential]
        /\ contactPoints' = [contactPoints EXCEPT ![p] = r.head]
        /\ npi' = [op |-> "addContactPointsAsPotentialContactManifold", pair |-> p,
                   log |-> <<>>, n |-> 0, nodes |-> {}]
        /\ UNCHANGED <<mem, allocErr, status, assertOK, shapeReleased, added, otherThanNPI>>

ResetContactPoints(p) ==
    LET al == getTemporaryAllocator(p)
        r  == resetContactPoints(contactPoints[p], [mem |-> mem[al], err |-> allocErr[al]])
    IN  /\ status[p] = "alive"
        /\ contactPoints' = [contactPoints EXCEPT ![p] = r.head]
        /\ mem' = [mem EXCEPT ![al] = r.mem]
        /\ allocErr' = [allocErr EXCEPT ![al] = r.err]
        /\ added' = [added EXCEPT ![p] = <<>>]
        /\ npi' = [op |-> "resetContactPoints", pair |-> p, log |-> r.log,
                   n |-> Len(added[p]),
                   nodes |-> {added[p][i].addr : i \in 1..Len(added[p])}]
        /\ UNCHANGED <<potential, status, assertOK, shapeReleased, otherThanNPI>>

\* NarrowPhaseInfo::~NarrowPhaseInfo.  A failed assertion aborts a build that
\* keeps assertions; a build without them (ndebug) goes on.
Destroy(p, ndebug) ==
    LET ok == contactPoints[p] = Null
    IN  /\ status[p] = "alive"
        /\ assertOK' = [assertOK EXCEPT ![p] = ok]
        /\ IF ok \/ ndebug
           THEN /\ status' = [status EXCEPT ![p] = "destroyed"]
                /\ shapeReleased' = [shapeReleased EXCEPT ![p] =
                        {i \in {1, 2} : collisionShapeName(p, i) = "TRIANGLE"}]
           ELSE /\ status' = [status EXCEPT ![p] = "aborted"]
                /\ UNCHANGED shapeReleased
        /\ npi' = [op |-> "destroy", pair |-> p, log |-> <<>>, n |-> 0, nodes |-> {}]
        /\ UNCHANGED <<contactPoints, mem, allocErr, potential, added, otherThanNPI>>

NextNPI ==
    \/ \E p \in Pairs, in \in ContactInputs, a \in Addr : AddContactPoint(p, in, a)
    \/ \E p \in Pairs : AddContactPointsAsPotentialContactManifold(p)
    \/ \E p \in Pairs : ResetContactPoints(p)
    \/ \E p \in Pairs, ndebug \in BOOLEAN : Destroy(p, ndebug)

\* two workers, each with its own pair, interleaved step by step
SpecNPI == InitNPI /\ [][NextNPI]_vars

\* one accumulator through its life
NextAcc ==
    \/ \E in \in ContactInputs, a \in Addr : AddContactPoint(1, in, a)
    \/ AddContactPointsAsPotentialContactManifold(1)
    \/ ResetContactPoints(1)
    \/ \E ndebug \in BOOLEAN : Destroy(1, ndebug)

SpecAcc == InitNPI /\ [][NextAcc]_vars

(***************************************************************************)
(* Contact accumulator: properties                                         *)
(***************************************************************************)
TemporaryMemory(p) == mem[getTemporaryAllocator(p)]

\* C4: after n addContactPoint and one resetContactPoints the list is empty
\* and the allocator has received exactly one release of
\* sizeof(ContactPointInfo) for each of the n nodes, each node once; no
\* allocated node is outstanding after any reset, in any number of cycles.
C4_ResetReleasesAll ==
    \A p \in Pairs :
        (npi.op = "resetContactPoints" /\ npi.pair = p) =>
            /\ contactPoints[p] = Null
            /\ Len(npi.log) = npi.n
            /\ \A i \in 1..Len(npi.log) : npi.log[i][2] = SizeofContactPointInfo
            /\ \A i, j \in 1..Len(npi.log) : npi.log[i][1] = npi.log[j][1] => i = j
            /\ {npi.log[i][1] : i \in 1..Len(npi.log)} = npi.nodes
            /\ ~allocErr[getTemporaryAllocator(p)]
            /\ Outstanding(TemporaryMemory(p)) = {}

\* a reset has released two nodes, and the pair record had been handed a list
\* in an earlier cycle
C4_Witness ==
    /\ npi.op = "resetContactPoints" /\ npi.pair = 1
    /\ npi.n >= 2
    /\ potential[1] # Null

C6_ListIsReverseOfAdded ==
    \A p \in Pairs :
        ListOf(contactPoints[p], TemporaryMemory(p), MaxNodes + 1) = Reverse(added[p])

\* two different points have been added, the second is the head
C6_Witness ==
    /\ Len(added[1]) >= 2
    /\ added[1][1].data # added[1][2].data
    /\ contactPoints[1] = added[1][2].addr

ListNodes(p) == {added[p][i].addr : i \in 1..Len(added[p])}

\* each pair's list and allocator are what the pair's own operations made them
AsIfAlone(p) ==
    /\ ListOf(contactPoints[p], TemporaryMemory(p), MaxNodes + 1) = Reverse(added[p])
    /\ Outstanding(TemporaryMemory(p)) = ListNodes(p)
    /\ ~allocErr[getTemporaryAllocator(p)]

\* a step of pair p leaves the list, the allocator and the record of pair q alone
LeavesAlone(q) ==
    /\ contactPoints'[q] = contactPoints[q]
    /\ mem'[getTemporaryAllocator(q)] = mem[getTemporaryAllocator(q)]
    /\ allocErr'[getTemporaryAllocator(q)] = allocErr[getTemporaryAllocator(q)]
    /\ potential'[q] = potential[q]
    /\ status'[q] = status[q]
    /\ added'[q] = added[q]

\* C7: however the steps of two workers on two pairs interleave, each pair's
\* list and each allocator's outstanding nodes are as if the pair had been
\* processed alone, and no step of one pair touches the other's list or allocator.
C7_PairsIndependent ==
    /\ [](\A p \in Pairs : AsIfAlone(p))
    /\ [][\A p \in Pairs, q \in Pairs : (npi'.pair = p /\ q # p) => LeavesAlone(q)]_vars

\* pair 2 has just been reset while pair 1 still holds two points
C7_Witness ==
    /\ npi.op = "resetContactPoints" /\ npi.pair = 2 /\ npi.n >= 1
    /\ Len(added[1]) >= 2
    /\ potential[2] # Null

(***************************************************************************)
(* Closest point and box: the state machines                               *)
(***************************************************************************)
ComputeClosestPoint ==
    LET r == computeClosestPoint(cpFace, cpVertices)
    IN  /\ cpFace' = r.face
        /\ cpRet' = [called |-> TRUE, ret |-> r.ret]
        /\ UNCHANGED <<cpVertices, otherThanClosest>>

NextClosest == ComputeClosestPoint

SpecClosest == InitClosest /\ [][NextClosest]_vars

Raycast ==
    LET r == raycast(box, query)
    IN  /\ rayRes' = [op |-> "raycast", ret |-> r.ret, info |-> NoInfo]
        /\ UNCHANGED <<box, query, inertia, otherThanBox>>

RaycastInfo ==
    LET r == raycastInfo(box, query)
    IN  /\ rayRes' = [op |-> "raycastInfo", ret |-> r.ret, info |-> r.info]
        /\ UNCHANGED <<box, query, inertia, otherThanBox>>

ComputeLocalInertiaTensor(mass) ==
    /\ inertia' = [called |-> TRUE, mass |-> mass,
                   tensor |-> computeLocalInertiaTensor(box, mass)]
    /\ UNCHANGED <<box, query, rayRes, otherThanBox>>

NextRay ==
    \/ Raycast
    \/ RaycastInfo
    \/ \E mass \in 1..MaxMass : ComputeLocalInertiaTensor(mass)

SpecRay == InitRay /\ [][NextRay]_vars

(***************************************************************************)
(* EPA: properties                                                         *)
(***************************************************************************)
\* the adjacency slots of tris and after agree outside the edges es
AdjSameExcept(tris, after, es) ==
    \A t \in DOMAIN tris :
        IF t \in {e.owner : e \in es}
        THEN \A i \in 0..2 : EdgeEPA(t, i) \notin es => after[t].adj[i] = tris[t].adj[i]
        ELSE after[t].adj = tris[t].adj

\* what link(e0, e1) must return and do, r being what it returned and did
LinkContract(tris, e0, e1, r) ==
    /\ r.ret = (/\ tris[e0.owner].v[e0.index] = tris[e1.owner].v[(e1.index + 1) % 3]
                /\ tris[e0.owner].v[(e0.index + 1) % 3] = tris[e1.owner].v[e1.index])
    /\ DOMAIN r.tris = DOMAIN tris
    /\ \A t \in DOMAIN tris : r.tris[t].v = tris[t].v /\ r.tris[t].obs = tris[t].obs
    /\ r.ret => /\ r.tris[e0.owner].adj[e0.index] = e1
                /\ r.tris[e1.owner].adj[e1.index] = e0
                /\ AdjSameExcept(tris, r.tris, {e0, e1})
    /\ ~r.ret => AdjSameExcept(tris, r.tris, {})

\* C1: link(e0, e1) returns true exactly when source(e0) = target(e1) and
\* target(e0) = source(e1); when true, slot index(e0) of e0's face is e1, slot
\* index(e1) of e1's face is e0 and no other slot changes; when false, no slot
\* of any face changes.  Checked for every pair of half-edges of every polytope
\* the expansion loop and direct calls of link and halfLink reach.
C1_LinkContract ==
    \A e0 \in Edges, e1 \in Edges :
        LinkContract(triangles, e0, e1, link(triangles, e0, e1))

\* a direct link has succeeded on an edge of an obsolete face (so it rewrote a slot)
C1_Witness == epa.op = "link" /\ epa.ret /\ epaForeign

NewFaces == epa.first..(nbTriangles - 1)

\* C2: when computeSilhouette returns true after appending k >= 1 faces, every
\* new face has its adjacency slots 0, 1 and 2 set to an edge of a face of the store.
C2_NewFacesClosed ==
    (epa.op = "computeSilhouette" /\ epa.ret /\ NewFaces # {}) =>
        \A t \in NewFaces, i \in 0..2 : triangles[t].adj[i] \in Edges

\* a second expansion has succeeded and added four faces
C2_Witness ==
    /\ epa.op = "computeSilhouette" /\ epa.ret
    /\ epa.first >= 7
    /\ Cardinality(NewFaces) = 4

\* every adjacency of a non-obsolete face is reciprocal
Reciprocal ==
    \A t \in Live, i \in 0..2 :
        LET e == triangles[t].adj[i]
        IN  /\ e \in Edges
            /\ ~triangles[e.owner].obs
            /\ triangles[e.owner].adj[e.index] = EdgeEPA(t, i)
            /\ Opposite(triangles, EdgeEPA(t, i), e)

Cross(a, b) ==
    <<a[2] * b[3] - a[3] * b[2], a[3] * b[1] - a[1] * b[3], a[1] * b[2] - a[2] * b[1]>>

\* the three vertices lie on one line (or coincide)
Collinear(vs) == Cross(Sub(vs[1], vs[0]), Sub(vs[2], vs[0])) = <<0, 0, 0>>

\* the Gram determinant of the two edge vectors leaving vertex 0
GramDet(vs) ==
    LET v1 == Sub(vs[1], vs[0])
        v2 == Sub(vs[2], vs[0])
    IN  Dot(v1, v1) * Dot(v2, v2) - Dot(v1, v2) * Dot(v1, v2)

\* C8: every call of computeClosestPoint returns true exactly when the Gram
\* determinant of the face is strictly positive; on a degenerate face
\* (collinear or coincident vertices, determinant <= 0) it returns false and
\* leaves the cached closestPoint and distSquare as they were, and on a valid
\* face the cached closest point is the one the barycentric formula gives.
C8_ClosestPointIffDetPositive ==
    [][ /\ cpRet'.called
        /\ cpRet'.ret = (GramDet(cpVertices) > 0)
        /\ Collinear(cpVertices) => ~cpRet'.ret
        /\ GramDet(cpVertices) <= 0 =>
              /\ cpFace'.closestPoint = cpFace.closestPoint
              /\ cpFace'.distSquare = cpFace.distSquare
        /\ GramDet(cpVertices) > 0 =>
              /\ cpFace'.closestPoint.den = GramDet(cpVertices)
              /\ cpFace'.distSquare.num =
                    Dot(cpFace'.closestPoint.num, cpFace'.closestPoint.num) ]_vars

\* a degenerate face of three distinct collinear vertices was rejected and its
\* cached closest point is still the stale one
C8_Witness ==
    /\ cpRet.called /\ ~cpRet.ret
    /\ Collinear(cpVertices)
    /\ Cardinality({cpVertices[i] : i \in 0..2}) = 3
    /\ cpFace.closestPoint = Stale

IsUnitAxisNormal(n) ==
    \E i \in 1..3 : Abs(n[i]) = 1 /\ \A j \in (1..3) \ {i} : n[j] = 0

\* C9: whenever the raycast with feedback reports a hit, the reported normal
\* is a unit vector along one box axis; for the unit box centred at the
\* origin and the ray from (5,0,0) toward (-1,0,0) the hit point is (1,0,0),
\* the distance 4 and the normal (1,0,0).
C9_NormalIsUnitAxis ==
    (rayRes.op = "raycastInfo" /\ rayRes.ret) =>
        /\ IsUnitAxisNormal(rayRes.info.worldNormal)
        /\ (box = UnitBox /\ query = AlongX) =>
              /\ rayRes.info.worldPoint = Scale(DirScale * TScale, <<1, 0, 0>>)
              /\ rayRes.info.distance = TScale * 4
              /\ rayRes.info.worldNormal = <<1, 0, 0>>

\* the same box without a margin: its slabs are the constructor's extents
FullExtentBox == BoxShape(box.extent, 0)

\* C10: both raycasts test the slabs at the margin-restored extents, the
\* half-sizes the constructor was given: their outcome is the one for the
\* planes at -E[i] and +E[i], whatever the margin.
C10_SlabsAtFullExtent ==
    /\ rayRes.op = "raycast" => rayRes.ret = raycast(FullExtentBox, query).ret
    /\ rayRes.op = "raycastInfo" =>
          /\ rayRes.ret = raycastInfo(FullExtentBox, query).ret
          /\ rayRes.info.distance = raycastInfo(FullExtentBox, query).info.distance

\* C11: for every box constructed with extent (x, y, z) and margin m and
\* every mass M, computeLocalInertiaTensor yields the diagonal matrix with
\* entries M/3*(y^2+z^2), M/3*(x^2+z^2), M/3*(x^2+y^2) over the constructor's
\* extents, all other entries 0, the same tensor as for margin 0.
C11_InertiaFromFullExtent ==
    inertia.called =>
        LET x == box.extent[1]
            y == box.extent[2]
            z == box.extent[3]
            M == inertia.mass
            t == inertia.tensor
        IN  /\ t.den = 3
            /\ t.num[1][1] = M * (y * y + z * z)
            /\ t.num[2][2] = M * (x * x + z * z)
            /\ t.num[3][3] = M * (x * x + y * y)
            /\ \A i \in 1..3, j \in 1..3 : i # j => t.num[i][j] = 0
            /\ t = computeLocalInertiaTensor(FullExtentBox, M)

\* the tensor of a box with a margin and three different tensor entries
C11_Witness ==
    /\ inertia.called
    /\ box.mMargin > 0
    /\ box.extent = <<3, 3, 4>>
    /\ inertia.mass = 2
    /\ inertia.tensor.num[1][1] = 50

(***************************************************************************)
(* EPA: the calls made by computeSilhouette                                *)
(***************************************************************************)
\* the calls of the given kind made by the last computeSilhouette, in order
CallsOf(fn) == SelectSeq(epa.calls, LAMBDA c : c.fn = fn)

\* the new face stitched just before new face i (the last one for the first)
PreviousNew(i) == IF i = epa.first THEN nbTriangles - 1 ELSE i - 1

Stitched == epa.op = "computeSilhouette" /\ epa.ret /\ NewFaces # {}

\* C12 as stated: in the stitching pass consecutive new faces are half-linked
\* on their horizon-to-new-vertex edges (edges 0 and 2), and each new face is
\* fully linked to the boundary edge it was built from.
C12_Original ==
    Stitched =>
        \A k \in DOMAIN epa.calls :
            LET c == epa.calls[k]
            IN  /\ c.fn = "halfLink" =>
                      c.e0.owner \in NewFaces /\ c.e1.owner \in NewFaces
                /\ c.fn = "link" =>
                      c.e0.owner \notin NewFaces \/ c.e1.owner \notin NewFaces

\* C12: in the stitching pass that follows a successful descent, for every
\* new face the boundary edge it was built from is half-linked (one side, no
\* test) to the face's edge 1, and the face's edge 0 is fully linked (both
\* sides, with link's source/target test) to edge 2 of the previous new
\* face; the pass makes no other call.
C12_StitchRoles ==
    Stitched =>
        /\ Len(CallsOf("halfLink")) = Cardinality(NewFaces)
        /\ Len(CallsOf("link")) = Cardinality(NewFaces)
        /\ \A i \in NewFaces :
              LET k == i - epa.first + 1
                  h == CallsOf("halfLink")[k]
                  l == CallsOf("link")[k]
              IN  /\ h.e1 = EdgeEPA(i, 1)
                  /\ h.e0 = triangles[i].adj[1]
                  /\ h.e0.owner \notin NewFaces
                  /\ triangles[h.e0.owner].adj[h.e0.index] = h.e1
                  /\ l.e0 = EdgeEPA(i, 0)
                  /\ l.e1 = EdgeEPA(PreviousNew(i), 2)
                  /\ l.ret
                  /\ Opposite(triangles, l.e0, l.e1)
                  /\ triangles[i].adj[0] = l.e1
                  /\ triangles[l.e1.owner].adj[2] = l.e0

\* a stitching pass over four new faces
C12_Witness ==
    /\ Stitched
    /\ Cardinality(NewFaces) = 4
    /\ Len(CallsOf("link")) = 4

\* C13: computeSilhouette returns false exactly when one of the edge
\* recursions it called or one of the links of the stitching pass returned
\* false, and true otherwise, having then called all three edge recursions
\* and stitched every new face; the call that failed is the last call it
\* made, the caller receives the failure as it is, and the face it was called
\* on is obsolete in both outcomes.
C13_FailurePropagates ==
    epa.op = "computeSilhouette" =>
        /\ epa.ret = (\A k \in DOMAIN epa.calls : epa.calls[k].ret)
        /\ \A k \in DOMAIN epa.calls : ~epa.calls[k].ret => k = Len(epa.calls)
        /\ epa.ret =>
              /\ Len(CallsOf("computeSilhouette")) = 3
              /\ Len(CallsOf("halfLink")) = Cardinality(NewFaces)
              /\ Len(CallsOf("link")) = Cardinality(NewFaces)
        /\ (\E k \in DOMAIN epa.calls :
               epa.calls[k].fn \in {"halfLink", "link"}) =>
              Len(CallsOf("computeSilhouette")) = 3
        /\ epaFailed = ~epa.ret
        /\ triangles[epa.on].obs

\* a link of the stitching pass failed with new faces still to be stitched
C13_Witness ==
    /\ epa.op = "computeSilhouette" /\ ~epa.ret
    /\ epa.stage = "stitch"
    /\ ~epa.calls[Len(epa.calls)].ret
    /\ Len(CallsOf("link")) < Cardinality(NewFaces)
    /\ triangles[epa.on].obs

(***************************************************************************)
(* Box: rays that start outside                                            *)
(***************************************************************************)
\* the local-space origin of the ray
LocalOrigin == Sub(query.origin, query.translation)

\* the origin is outside the slab of the stored box on at least one axis
OriginOutside == \E i \in 1..3 : Abs(LocalOrigin[i]) > box.mExtent[i]

\* the values of t (in twelfths) at which the ray is between the two planes
\* of axis i of the stored box: [lo, hi], empty when lo > hi
SlabInterval(i) ==
    LET d == getUnit(query.direction)[i]
        o == LocalOrigin[i]
        E == box.mExtent[i]
        a == ((-E - o) * DirScale * TScale) \div d
        b == ((E - o) * DirScale * TScale) \div d
    IN  IF d = 0
        THEN IF Abs(o) <= E THEN [lo |-> 0, hi |-> DecimalLargest]
                            ELSE [lo |-> 1, hi |-> 0]
        ELSE [lo |-> Min(a, b), hi |-> Max(a, b)]

\* the first t >= 0 at which the ray is inside the stored box on every axis
EntryT == Max(0, Max(SlabInterval(1).lo, Max(SlabInterval(2).lo, SlabInterval(3).lo)))

ExitT == Min(SlabInterval(1).hi, Min(SlabInterval(2).hi, SlabInterval(3).hi))

\* the ray meets the stored box at some t >= 0
Enters == EntryT <= ExitT

\* C14: in both raycasts a ray whose local origin is outside the box is never
\* rejected by the test t1 < 0: when such a ray enters the box (within the
\* maximum distance, where there is one) it is reported as a hit.
C14_OutsideRayHits ==
    /\ (rayRes.op = "raycast" /\ OriginOutside /\ Enters) => rayRes.ret
    /\ (rayRes.op = "raycastInfo" /\ OriginOutside /\ Enters
            /\ EntryT <= TScale * query.distance) => rayRes.ret
====
